---- MODULE Spec2Model ----
(***************************************************************************)
(* MetalSimulationRegion, level-1 drift-diffusion assembly                 *)
(* (src/solver/ddm1/ddm1_resistance.cc): residual and Jacobian assembly of *)
(* div(J)=0 over a resistive region, the pseudo time step smoother, its    *)
(* convergence test and the commit of an accepted iterate.                 *)
(*                                                                         *)
(* PetscScalar values are modelled as exact rationals <<num, den>> in      *)
(* lowest terms with den > 0.  Potentials are integers counted in units of *)
(* 1e-10, so that the literal 1e-10 of the relative-change denominator is  *)
(* the integer 1.                                                          *)
(***************************************************************************)
EXTENDS Integers, Sequences, FiniteSets, TLC

VARIABLES
  on_processor,   \* FVM_Node::on_processor(), per node
  pad,            \* connect_to_low_resistance_solderpad()
  total_nodes,    \* _total_nodes_in_connected_resistance_region
  psi,            \* FVM_NodeData::psi(), per node
  psi_last,       \* FVM_NodeData::psi_last(), per node
  pass,           \* which accumulator the driver is building: "function" / "jacobian"
  add_value_flag, \* InsertMode &add_value_flag of the running pass
  f_pending,      \* mode of the writes to Vec f not yet followed by VecAssemblyEnd
  f_mixed,        \* an ADD_VALUES write reached f while INSERT_VALUES writes were pending
  op,             \* the member function that ran last
  x_in,           \* its argument x / lxx
  entry_flag,     \* add_value_flag as it was on entry
  vec_events,     \* its calls on Vec f, in order
  f_log,          \* (index, value) pairs it handed to VecSetValues / VecSetValue
  jac_log,        \* rows it handed to SparseMatrix::add_row / add
  cap_res,        \* the locals cap, res of DDM1_Function / DDM1_Jacobian
  ret,            \* value returned (-1 for void)
  pre_psi,        \* psi on entry of the last call
  pre_psi_last,   \* psi_last on entry of the last call
  commits,        \* the lxx of the most recent calls of DDM1_Update_Solution
  n_updates       \* number of calls of DDM1_Update_Solution so far (saturating)

vars == <<on_processor, pad, total_nodes, psi, psi_last, pass, add_value_flag,
          f_pending, f_mixed, op, x_in, entry_flag, vec_events, f_log, jac_log,
          cap_res, ret, pre_psi, pre_psi_last, commits, n_updates>>

----------------------------------------------------------------------------
(* Bounds *)

\* potentials range over -1..MaxV-1
MaxV == 1
\* n_updates saturates here; commits keeps that many vectors
MaxUpdates == 2

Potentials == (0 - 1)..(MaxV - 1)

----------------------------------------------------------------------------
(* PetscScalar arithmetic *)

Abs(a) == IF a < 0 THEN -a ELSE a

RECURSIVE GCD(_, _)
GCD(a, b) == IF b = 0 THEN a ELSE GCD(b, a % b)

Rat(n, d) ==
  LET s == IF d < 0 THEN -1 ELSE 1
      g == GCD(Abs(n), Abs(d))
  IN  <<(s * n) \div g, (s * d) \div g>>

R(n) == <<n, 1>>
RAdd(a, b) == Rat(a[1] * b[2] + b[1] * a[2], a[2] * b[2])
RNeg(a) == <<-a[1], a[2]>>
RSub(a, b) == RAdd(a, RNeg(b))
RMul(a, b) == Rat(a[1] * b[1], a[2] * b[2])
RDiv(a, b) == Rat(a[1] * b[2], a[2] * b[1])
RAbs(a) == <<Abs(a[1]), a[2]>>
RGt(a, b) == a[1] * b[2] > b[1] * a[2]

\* pow(v, 1.0/3.0) on the perfect cubes the mesh below uses
Cbrt(v) == CHOOSE r \in 0..v : r * r * r = v

----------------------------------------------------------------------------
(* adtl::AutoDScalar: a value with numdir tangents *)

AD_Const(v, numdir) == [val |-> v, ad |-> [i \in 1..numdir |-> R(0)]]
\* AutoDScalar V = v; V.setADValue(dir, 1.0)   (dir is 0-based in the code)
AD_Var(v, dir, numdir) ==
  [val |-> v, ad |-> [i \in 1..numdir |-> IF i = dir + 1 THEN R(1) ELSE R(0)]]
AD_Sub(a, b) ==
  [val |-> RSub(a.val, b.val), ad |-> [i \in DOMAIN a.ad |-> RSub(a.ad[i], b.ad[i])]]
AD_Neg(a) == [val |-> RNeg(a.val), ad |-> [i \in DOMAIN a.ad |-> RNeg(a.ad[i])]]
AD_MulC(a, c) ==
  [val |-> RMul(a.val, c), ad |-> [i \in DOMAIN a.ad |-> RMul(a.ad[i], c)]]
AD_DivC(a, c) ==
  [val |-> RDiv(a.val, c), ad |-> [i \in DOMAIN a.ad |-> RDiv(a.ad[i], c)]]

----------------------------------------------------------------------------
(* The region: mesh, material and solver settings *)

Nodes == {1, 2}
NodeOrder == <<1, 2>>
\* the region's edges, (first, second)
Edges == << <<1, 2>> >>

local_offset(n) == n
global_offset(n) == 10 + n
LocalIndex == {local_offset(n) : n \in Nodes}

\* fvm_n1->distance(fvm_n2)
distance(n1, n2) == 2
\* fvm_n1->cv_surface_area(fvm_n2): the sign follows the edge orientation
cv_surface_area(n1, n2) == -3
\* fvm_node->volume()
volume(n) == IF n = 1 THEN 8 ELSE 27
z_width == 1
n_node == Cardinality(Nodes)

T_external == 300
get_conductance == 4
\* mt->basic->CurrentDensity(E, T): J = sigma*E
CurrentDensity(E, T) == RMul(R(get_conductance), E)
CurrentDensity_AD(E, T) == AD_MulC(E, R(get_conductance))

aux_capacitance == 6
aux_resistance == 3
NetworkSizes == {1, 5, 100}

dt == 2
PseudoTimeCMOSTime == 1
PseudoTimeStepMetal == 1
PseudoTimeTolRelax == 2
elec_continuity_abs_toler == 1
hole_continuity_abs_toler == 2
relative_toler == 2

\* the node lists the region keeps
on_processor_nodes == SelectSeq(NodeOrder, LAMBDA n : on_processor[n])
\* a ghost node: owned by another worker, endpoint of an edge whose other
\* endpoint this worker owns
is_ghost(n) ==
  /\ ~on_processor[n]
  /\ \E k \in 1..Len(Edges) :
       \/ Edges[k][1] = n /\ on_processor[Edges[k][2]]
       \/ Edges[k][2] = n /\ on_processor[Edges[k][1]]
\* FVM_Node::on_local(): on-processor nodes and ghost nodes, the nodes that
\* have a local offset
on_local(n) == on_processor[n] \/ is_ghost(n)
on_local_nodes == SelectSeq(NodeOrder, on_local)

----------------------------------------------------------------------------
(* Edge flux, lines 104-146 and 200-245 *)

\* "flux" from node 2 to node 1
EdgeFlux(x, e) ==
  LET V1 == R(x[local_offset(e[1])])
      V2 == R(x[local_offset(e[2])])
      E  == RDiv(RSub(V2, V1), R(distance(e[1], e[2])))
      S  == Abs(cv_surface_area(e[1], e[2]))
  IN  RMul(CurrentDensity(E, T_external), R(S))

EdgeFlux_AD(x, e) ==
  LET V1 == AD_Var(R(x[local_offset(e[1])]), 0, 2)
      V2 == AD_Var(R(x[local_offset(e[2])]), 1, 2)
      E  == AD_DivC(AD_Sub(V2, V1), R(distance(e[1], e[2])))
      S  == Abs(cv_surface_area(e[1], e[2]))
  IN  AD_MulC(CurrentDensity_AD(E, T_external), R(S))

\* Edge_Function with the sign of the second entry lost, and with the
\* on_processor() tests lost
Edge_Function_SameSign(x, e) ==
  LET f == EdgeFlux(x, e)
  IN  (IF on_processor[e[1]] THEN << <<global_offset(e[1]), f>> >> ELSE <<>>)
      \o (IF on_processor[e[2]] THEN << <<global_offset(e[2]), f>> >> ELSE <<>>)
Edge_Function_NoGhostCheck(x, e) ==
  LET f == EdgeFlux(x, e)
  IN  << <<global_offset(e[1]), f>>, <<global_offset(e[2]), RNeg(f)>> >>

\* the (index, value) pairs one edge appends to iy / y
Edge_Function(x, e) ==
  LET f == EdgeFlux(x, e)
  IN  (IF on_processor[e[1]] THEN << <<global_offset(e[1]), f>> >> ELSE <<>>)
      \o (IF on_processor[e[2]] THEN << <<global_offset(e[2]), RNeg(f)>> >> ELSE <<>>)

\* the rows one edge hands to jac->add_row
Edge_Jacobian(x, e) ==
  LET f   == EdgeFlux_AD(x, e)
      col == <<global_offset(e[1]), global_offset(e[2])>>
  IN  (IF on_processor[e[1]]
         THEN << [row |-> global_offset(e[1]), cols |-> col, vals |-> f.ad] >>
         ELSE <<>>)
      \o (IF on_processor[e[2]]
            THEN << [row |-> global_offset(e[2]), cols |-> col, vals |-> AD_Neg(f).ad] >>
            ELSE <<>>)

RECURSIVE EdgeLoop_Function(_, _)
EdgeLoop_Function(x, k) ==
  IF k > Len(Edges) THEN <<>>
  ELSE Edge_Function(x, Edges[k]) \o EdgeLoop_Function(x, k + 1)

RECURSIVE EdgeLoop_Jacobian(_, _)
EdgeLoop_Jacobian(x, k) ==
  IF k > Len(Edges) THEN <<>>
  ELSE Edge_Jacobian(x, Edges[k]) \o EdgeLoop_Jacobian(x, k + 1)

----------------------------------------------------------------------------
(* Auxiliary capacitor / resistor, lines 149-165 and 253-268 *)

\* AuxCap with the divisor N in place of N+1
AuxCap_ByN == RDiv(R(aux_capacitance), R(total_nodes))

AuxCap == RDiv(R(aux_capacitance), R(total_nodes + 1))
AuxRes == RMul(R(aux_resistance), R(total_nodes + 1))

\* current = -cap*(V-psi)/dt - (V-psi)/res
Aux_Current(V, n) ==
  LET dV == RSub(V, R(psi[n]))
  IN  RSub(RDiv(RMul(RNeg(AuxCap), dV), R(dt)), RDiv(dV, AuxRes))

Aux_Current_AD(V, n) ==
  LET dV == AD_Sub(V, AD_Const(R(psi[n]), 1))
  IN  AD_Sub(AD_DivC(AD_MulC(dV, RNeg(AuxCap)), R(dt)), AD_DivC(dV, AuxRes))

Aux_Function(x, n) ==
  << <<global_offset(n), Aux_Current(R(x[local_offset(n)]), n)>> >>

Aux_Jacobian(x, n) ==
  << [row  |-> global_offset(n),
      cols |-> <<global_offset(n)>>,
      vals |-> <<Aux_Current_AD(AD_Var(R(x[local_offset(n)]), 0, 1), n).ad[1]>>] >>

\* AuxLoop_Function with the loop skipped for a pad-connected region
RECURSIVE AuxLoop_Function_PadSkip(_, _, _)
AuxLoop_Function_PadSkip(x, nodes, k) ==
  IF pad \/ k > Len(nodes) THEN <<>>
  ELSE Aux_Function(x, nodes[k]) \o AuxLoop_Function_PadSkip(x, nodes, k + 1)

RECURSIVE AuxLoop_Function(_, _, _)
AuxLoop_Function(x, nodes, k) ==
  IF k > Len(nodes) THEN <<>>
  ELSE Aux_Function(x, nodes[k]) \o AuxLoop_Function(x, nodes, k + 1)

RECURSIVE AuxLoop_Jacobian(_, _, _)
AuxLoop_Jacobian(x, nodes, k) ==
  IF k > Len(nodes) THEN <<>>
  ELSE Aux_Jacobian(x, nodes[k]) \o AuxLoop_Jacobian(x, nodes, k + 1)

----------------------------------------------------------------------------
(* Pseudo time step smoother, lines 279-386 *)

\* C/T = sigma*L
PseudoCap(n) ==
  RDiv(RDiv(RMul(RMul(R(get_conductance), R(Cbrt(volume(n) * z_width))),
                 R(PseudoTimeCMOSTime)),
            R(z_width)),
       R(n_node))

Pseudo_Function(x, n) ==
  LET dV == RSub(R(x[local_offset(n)]), R(psi[n]))
  IN  << <<global_offset(n),
           RDiv(RMul(RNeg(PseudoCap(n)), dV), R(PseudoTimeStepMetal))>> >>

Pseudo_Jacobian(x, n) ==
  LET V   == AD_Var(R(x[local_offset(n)]), 0, 1)
      dV  == AD_Sub(V, AD_Const(R(psi[n]), 1))
      f_V == AD_DivC(AD_MulC(dV, RNeg(PseudoCap(n))), R(PseudoTimeStepMetal))
  IN  << [row |-> global_offset(n), cols |-> <<global_offset(n)>>,
          vals |-> <<f_V.ad[1]>>] >>

RECURSIVE PseudoLoop_Function(_, _, _)
PseudoLoop_Function(x, nodes, k) ==
  IF k > Len(nodes) THEN <<>>
  ELSE Pseudo_Function(x, nodes[k]) \o PseudoLoop_Function(x, nodes, k + 1)

RECURSIVE PseudoLoop_Jacobian(_, _, _)
PseudoLoop_Jacobian(x, nodes, k) ==
  IF k > Len(nodes) THEN <<>>
  ELSE Pseudo_Jacobian(x, nodes[k]) \o PseudoLoop_Jacobian(x, nodes, k + 1)

\* Unconverged with || for &&
Unconverged_Either(x, n) ==
  LET V      == R(x[local_offset(n)])
      dV     == RSub(V, R(psi[n]))
      fV_abs == RAbs(RDiv(RMul(RNeg(PseudoCap(n)), dV), R(PseudoTimeStepMetal)))
      V_rel  == RDiv(RAbs(RMul(PseudoCap(n), dV)),
                     RAdd(RAdd(RAbs(V), RAbs(R(psi[n]))), R(1)))
      toler  == RMul(RMul(R(PseudoTimeTolRelax), <<1, 2>>),
                     R(elec_continuity_abs_toler + hole_continuity_abs_toler))
  IN  RGt(fV_abs, toler) \/ RGt(V_rel, R(relative_toler))

\* the test of lines 376-379
Unconverged(x, n) ==
  LET V      == R(x[local_offset(n)])
      dV     == RSub(V, R(psi[n]))
      fV_abs == RAbs(RDiv(RMul(RNeg(PseudoCap(n)), dV), R(PseudoTimeStepMetal)))
      V_rel  == RDiv(RAbs(RMul(PseudoCap(n), dV)),
                     RAdd(RAdd(RAbs(V), RAbs(R(psi[n]))), R(1)))
      toler  == RMul(RMul(R(PseudoTimeTolRelax), <<1, 2>>),
                     R(elec_continuity_abs_toler + hole_continuity_abs_toler))
  IN  RGt(fV_abs, toler) /\ RGt(V_rel, R(relative_toler))

RECURSIVE ConvergenceLoop(_, _, _)
ConvergenceLoop(x, nodes, k) ==
  IF k > Len(nodes) THEN 0
  ELSE (IF Unconverged(x, nodes[k]) THEN 1 ELSE 0) + ConvergenceLoop(x, nodes, k + 1)

----------------------------------------------------------------------------
(* The member functions *)

Vectors == [LocalIndex -> Potentials]

\* NeedsAssembly with the assembly never done
NeedsAssembly_Never(flag) == FALSE

\* line 87 / 283
NeedsAssembly(flag) == (flag # "ADD_VALUES") /\ (flag # "NOT_SET_VALUES")

\* the calls on Vec f of one member function: the assembly, then n_add writes
VecCalls(assembly, n_add) ==
  LET after == IF assembly THEN "NOT_SET_VALUES" ELSE f_pending
  IN  /\ vec_events' = (IF assembly THEN <<"VecAssembly">> ELSE <<>>)
                         \o [i \in 1..n_add |-> "ADD_VALUES"]
      /\ f_pending' = IF n_add > 0 THEN "ADD_VALUES" ELSE after
      /\ f_mixed' = (f_mixed \/ (n_add > 0 /\ after = "INSERT_VALUES"))

Called(name, x, flog, jlog, cr, r) ==
  /\ op' = name
  /\ x_in' = x
  /\ entry_flag' = add_value_flag
  /\ f_log' = flog
  /\ jac_log' = jlog
  /\ cap_res' = cr
  /\ ret' = r
  /\ pre_psi' = psi
  /\ pre_psi_last' = psi_last

NoCapRes == [cap |-> R(0), res |-> R(0)]
Region == <<on_processor, pad, total_nodes>>
NodeData == <<psi, psi_last, commits, n_updates>>

DDM1_Function ==
  /\ pass = "function"
  /\ \E x \in Vectors :
       LET iy_y == EdgeLoop_Function(x, 1) \o AuxLoop_Function(x, on_processor_nodes, 1)
       IN  /\ VecCalls(NeedsAssembly(add_value_flag), IF Len(iy_y) > 0 THEN 1 ELSE 0)
           /\ Called("DDM1_Function", x, iy_y, <<>>,
                     [cap |-> AuxCap, res |-> AuxRes], -1)
  /\ add_value_flag' = "ADD_VALUES"
  /\ UNCHANGED <<Region, NodeData, pass>>

DDM1_Jacobian ==
  /\ pass = "jacobian"
  /\ \E x \in Vectors :
       Called("DDM1_Jacobian", x, <<>>,
              EdgeLoop_Jacobian(x, 1) \o AuxLoop_Jacobian(x, on_processor_nodes, 1),
              [cap |-> AuxCap, res |-> AuxRes], -1)
  /\ vec_events' = <<>>
  /\ add_value_flag' = "ADD_VALUES"
  /\ UNCHANGED <<Region, NodeData, pass, f_pending, f_mixed>>

\* the pad checks of lines 289 / 321 lost, and the flag set before them
Pseudo_Function_Entries_NoPad(x) == PseudoLoop_Function(x, on_processor_nodes, 1)
Pseudo_ExitFlag_Always(flag) == "ADD_VALUES"

\* line 289 and the loop after it
Pseudo_Function_Entries(x) ==
  IF pad THEN <<>> ELSE PseudoLoop_Function(x, on_processor_nodes, 1)

\* line 321 and the loop after it
Pseudo_Jacobian_Entries(x) ==
  IF pad THEN <<>> ELSE PseudoLoop_Jacobian(x, on_processor_nodes, 1)

\* lines 289 / 314 and 321 / 351: the early return leaves the flag as it was
Pseudo_ExitFlag(flag) == IF pad THEN flag ELSE "ADD_VALUES"

DDM1_Pseudo_Time_Step_Function ==
  /\ pass = "function"
  /\ \E x \in Vectors :
       LET entries == Pseudo_Function_Entries(x)
       IN  /\ VecCalls(NeedsAssembly(add_value_flag), Len(entries))
           /\ Called("DDM1_Pseudo_Time_Step_Function", x, entries, <<>>, NoCapRes, -1)
  /\ add_value_flag' = Pseudo_ExitFlag(add_value_flag)
  /\ UNCHANGED <<Region, NodeData, pass>>

DDM1_Pseudo_Time_Step_Jacobian ==
  /\ pass = "jacobian"
  /\ \E x \in Vectors :
       Called("DDM1_Pseudo_Time_Step_Jacobian", x, <<>>,
              Pseudo_Jacobian_Entries(x), NoCapRes, -1)
  /\ vec_events' = <<>>
  /\ add_value_flag' = Pseudo_ExitFlag(add_value_flag)
  /\ UNCHANGED <<Region, NodeData, pass, f_pending, f_mixed>>

\* lines 359-385
Convergence_Result(x) ==
  IF pad THEN 0 ELSE ConvergenceLoop(x, on_processor_nodes, 1)

DDM1_Pseudo_Time_Step_Convergence_Test ==
  /\ \E x \in Vectors :
       Called("DDM1_Pseudo_Time_Step_Convergence_Test", x, <<>>, <<>>, NoCapRes,
              Convergence_Result(x))
  /\ vec_events' = <<>>
  /\ UNCHANGED <<Region, NodeData, pass, add_value_flag, f_pending, f_mixed>>

InSeq(s, n) == \E i \in 1..Len(s) : s[i] = n

\* the update with lines 401 and 402 swapped, and with the loop over
\* on_processor_nodes
Update_NodeData_Late(nd, v) == [psi |-> v, psi_last |-> v]
Update_Solution_Nodes_Owned == on_processor_nodes

\* lines 401-402
Update_NodeData(nd, v) == [psi |-> v, psi_last |-> nd.psi]

\* lines 393-395: the nodes the loop visits
Update_Solution_Nodes == on_local_nodes

DDM1_Update_Solution ==
  /\ \E lxx \in Vectors :
       LET new == [n \in Nodes |->
                     IF InSeq(Update_Solution_Nodes, n)
                       THEN Update_NodeData([psi |-> psi[n], psi_last |-> psi_last[n]],
                                            lxx[local_offset(n)])
                       ELSE [psi |-> psi[n], psi_last |-> psi_last[n]]]
       IN  /\ psi' = [n \in Nodes |-> new[n].psi]
           /\ psi_last' = [n \in Nodes |-> new[n].psi_last]
           /\ commits' = (IF Len(commits) < MaxUpdates THEN commits ELSE Tail(commits))
                           \o <<lxx>>
           /\ Called("DDM1_Update_Solution", lxx, <<>>, <<>>, NoCapRes, -1)
  /\ n_updates' = IF n_updates < MaxUpdates THEN n_updates + 1 ELSE n_updates
  /\ vec_events' = <<>>
  /\ UNCHANGED <<Region, pass, add_value_flag, f_pending, f_mixed>>

----------------------------------------------------------------------------
(* The callers: the solver's function / Jacobian evaluation and the boundary
   conditions processed after the regions *)

ZeroVector == [i \in LocalIndex |-> 0]

\* the solver starts an evaluation: the accumulator is assembled and the flag
\* of the evaluation starts as NOT_SET_VALUES
Begin_Pass ==
  /\ \E kind \in {"function", "jacobian"} : pass' = kind
  /\ add_value_flag' = "NOT_SET_VALUES"
  /\ f_pending' = IF pass' = "function" THEN "NOT_SET_VALUES" ELSE f_pending
  /\ vec_events' = <<>>
  /\ Called("Begin_Pass", ZeroVector, <<>>, <<>>, NoCapRes, -1)
  /\ UNCHANGED <<Region, NodeData, f_mixed>>

\* a boundary condition overwrites rows of the accumulator
BC_Insert ==
  /\ add_value_flag' = "INSERT_VALUES"
  /\ f_pending' = IF pass = "function" THEN "INSERT_VALUES" ELSE f_pending
  /\ vec_events' = IF pass = "function" /\ f_pending = "ADD_VALUES"
                     THEN <<"VecAssembly", "INSERT_VALUES">>
                     ELSE IF pass = "function" THEN <<"INSERT_VALUES">> ELSE <<>>
  /\ Called("BC_Insert", ZeroVector, <<>>, <<>>, NoCapRes, -1)
  /\ UNCHANGED <<Region, NodeData, pass, f_mixed>>

----------------------------------------------------------------------------

OwnershipPatterns ==
  { [n \in Nodes |-> TRUE], [n \in Nodes |-> n = 1], [n \in Nodes |-> n = 2] }

\* the region as the mesh setup built it, with NodeData as the earlier
\* commits left it
InitRegion(sizes, potentials) ==
  /\ on_processor \in OwnershipPatterns
  /\ pad \in BOOLEAN
  /\ total_nodes \in sizes
  /\ psi \in potentials
  /\ psi_last = [n \in Nodes |-> 0]
  /\ pass = "function"
  /\ add_value_flag = "NOT_SET_VALUES"
  /\ f_pending = "NOT_SET_VALUES"
  /\ f_mixed = FALSE
  /\ op = "none"
  /\ x_in = ZeroVector
  /\ entry_flag = "NOT_SET_VALUES"
  /\ vec_events = <<>>
  /\ f_log = <<>>
  /\ jac_log = <<>>
  /\ cap_res = NoCapRes
  /\ ret = -1
  /\ pre_psi = psi
  /\ pre_psi_last = psi_last
  /\ commits = <<>>
  /\ n_updates = 0

(* Assembly of one Newton iteration: NodeData is whatever was committed *)
Init == InitRegion({5}, [Nodes -> Potentials])

Next ==
  \/ DDM1_Function
  \/ DDM1_Jacobian
  \/ DDM1_Pseudo_Time_Step_Function
  \/ DDM1_Pseudo_Time_Step_Jacobian
  \/ DDM1_Pseudo_Time_Step_Convergence_Test
  \/ Begin_Pass
  \/ BC_Insert

Spec == Init /\ [][Next]_vars

(* Commits of accepted iterates, from freshly constructed NodeData *)
InitUpdate == InitRegion({5}, {[n \in Nodes |-> 0]})

NextUpdate ==
  \/ DDM1_Update_Solution
  \/ DDM1_Pseudo_Time_Step_Convergence_Test

SpecUpdate == InitUpdate /\ [][NextUpdate]_vars

(* The lumped network over the sizes of the connected region *)
InitScaling == InitRegion(NetworkSizes, {[n \in Nodes |-> 0]})

NextScaling ==
  \/ DDM1_Function
  \/ DDM1_Jacobian
  \/ Begin_Pass

SpecScaling == InitScaling /\ [][NextScaling]_vars

----------------------------------------------------------------------------
(* Properties *)

Owned == {n \in Nodes : on_processor[n]}
Ghosts == {n \in Nodes : ~on_processor[n]}
OwnedRows == {global_offset(n) : n \in Owned}
BothOwned(e) == on_processor[e[1]] /\ on_processor[e[2]]
OwnedEnds(e) == (IF on_processor[e[1]] THEN 1 ELSE 0) + (IF on_processor[e[2]] THEN 1 ELSE 0)

\* number of entries the edges before edge k put in the buffers
RECURSIVE SlotsBefore(_)
SlotsBefore(k) == IF k <= 1 THEN 0 ELSE OwnedEnds(Edges[k - 1]) + SlotsBefore(k - 1)

\* what a log adds up to in one residual row / one Jacobian entry
RECURSIVE NetResidual(_, _, _)
NetResidual(log, g, k) ==
  IF k > Len(log) THEN R(0)
  ELSE RAdd(IF log[k][1] = g THEN log[k][2] ELSE R(0), NetResidual(log, g, k + 1))

RECURSIVE RowEntry(_, _, _)
RowEntry(r, c, j) ==
  IF j > Len(r.cols) THEN R(0)
  ELSE RAdd(IF r.cols[j] = c THEN r.vals[j] ELSE R(0), RowEntry(r, c, j + 1))

RECURSIVE NetJacobian(_, _, _, _)
NetJacobian(log, g, c, k) ==
  IF k > Len(log) THEN R(0)
  ELSE RAdd(IF log[k].row = g THEN RowEntry(log[k], c, 1) ELSE R(0),
            NetJacobian(log, g, c, k + 1))

\* C1. Conservation: for an edge with both endpoints on this processor,
\* DDM1_Function adds f = sigma*((V2-V1)/distance)*|area| at node1 and exactly
\* -f at node2, and the row DDM1_Jacobian adds at node1, columns
\* [node1, node2], is the column-wise negation of the row it adds at node2.
C1_Conservation ==
  \A k \in 1..Len(Edges) :
    BothOwned(Edges[k]) =>
      LET e  == Edges[k]
          i  == SlotsBefore(k) + 1
          g1 == global_offset(e[1])
          g2 == global_offset(e[2])
          f  == Rat(get_conductance
                      * (x_in[local_offset(e[2])] - x_in[local_offset(e[1])])
                      * Abs(cv_surface_area(e[1], e[2])),
                    distance(e[1], e[2]))
      IN  /\ op = "DDM1_Function" =>
                /\ f_log[i] = <<g1, f>>
                /\ f_log[i + 1] = <<g2, RNeg(f_log[i][2])>>
          /\ op = "DDM1_Jacobian" =>
                /\ jac_log[i].row = g1 /\ jac_log[i + 1].row = g2
                /\ jac_log[i].cols = <<g1, g2>> /\ jac_log[i + 1].cols = <<g1, g2>>
                /\ \A j \in 1..2 : jac_log[i + 1].vals[j] = RNeg(jac_log[i].vals[j])

C1_Witness ==
  /\ op = "DDM1_Function"
  /\ BothOwned(Edges[1])
  /\ x_in[local_offset(1)] # x_in[local_offset(2)]
  /\ f_log[1][2] # R(0)

\* C2. Ownership gating: every residual entry and every Jacobian row written
\* by an assembler has the global offset of a node on this processor as its
\* row; an edge with a ghost endpoint yields the row of its owned endpoint only.
C2_OwnershipGating ==
  /\ \A k \in 1..Len(f_log) : f_log[k][1] \in OwnedRows
  /\ \A k \in 1..Len(jac_log) : jac_log[k].row \in OwnedRows

C2_Witness ==
  /\ op = "DDM1_Function"
  /\ Ghosts # {}
  /\ x_in[local_offset(1)] # x_in[local_offset(2)]
  /\ Len(f_log) = 2

\* C3. History rotation: after DDM1_Update_Solution(lxx) every node on this
\* processor has psi_last equal to the psi it had on entry and psi equal to
\* lxx at its local offset; after two or more updates psi_last is the value
\* of the update before the last and psi the value of the last one.
C3_HistoryRotation ==
  /\ op = "DDM1_Update_Solution" =>
       \A n \in Owned : /\ psi_last[n] = pre_psi[n]
                        /\ psi[n] = x_in[local_offset(n)]
  /\ n_updates >= 2 =>
       \A n \in Owned : /\ psi_last[n] = commits[Len(commits) - 1][local_offset(n)]
                        /\ psi[n] = commits[Len(commits)][local_offset(n)]

C3_Witness ==
  /\ op = "DDM1_Update_Solution"
  /\ n_updates >= 2
  /\ \E n \in Owned : psi[n] # psi_last[n] /\ psi_last[n] # pre_psi_last[n]

AuxTerm(dV) ==
  Rat(-dV * (aux_capacitance * aux_resistance + dt),
      aux_resistance * (total_nodes + 1) * dt)

C6_PseudoBypassed ==
  pad =>
    /\ op = "DDM1_Pseudo_Time_Step_Function" =>
         /\ f_log = <<>>
         /\ \A k \in 1..Len(vec_events) : vec_events[k] # "ADD_VALUES"
    /\ op = "DDM1_Pseudo_Time_Step_Jacobian" => jac_log = <<>>
    /\ op = "DDM1_Pseudo_Time_Step_Convergence_Test" => ret = 0

C6_Witness ==
  /\ pad
  /\ op = "DDM1_Pseudo_Time_Step_Function"
  /\ \E n \in Owned : x_in[local_offset(n)] # psi[n]

ResidualAssemblers == {"DDM1_Function", "DDM1_Pseudo_Time_Step_Function"}
Assemblers == ResidualAssemblers
                \cup {"DDM1_Jacobian", "DDM1_Pseudo_Time_Step_Jacobian"}
HasAdd == \E k \in 1..Len(vec_events) : vec_events[k] = "ADD_VALUES"
HasAssembly == \E k \in 1..Len(vec_events) : vec_events[k] = "VecAssembly"

C8_AlwaysAdditive ==
  op \in Assemblers => add_value_flag = "ADD_VALUES"

\* C8. The flag is ADD_VALUES when DDM1_Function or DDM1_Jacobian returns, and
\* when a pseudo time step assembler of a region that is not pad-connected
\* returns; for a pad-connected region the pseudo time step assemblers return
\* with the flag as it was on entry.
C8_AdditiveUnlessPadReturn ==
  /\ op \in {"DDM1_Function", "DDM1_Jacobian"} => add_value_flag = "ADD_VALUES"
  /\ op \in {"DDM1_Pseudo_Time_Step_Function", "DDM1_Pseudo_Time_Step_Jacobian"} =>
       add_value_flag = (IF pad THEN entry_flag ELSE "ADD_VALUES")

C8_Witness ==
  /\ op = "DDM1_Pseudo_Time_Step_Function"
  /\ pad
  /\ entry_flag = "INSERT_VALUES"
  /\ add_value_flag = "INSERT_VALUES"

\* the two comparisons of the convergence test in integers: with
\* cap = c[1]/c[2] and d = |V - psi|,
\*   |cap*d/step| > relax*0.5*(etol+htol)  and  |cap*d|/(|V|+|psi|+eps) > rtol
ExceedsAbs(n) ==
  LET c == PseudoCap(n)
      d == Abs(x_in[local_offset(n)] - psi[n])
  IN  2 * c[1] * d
        > PseudoTimeTolRelax * (elec_continuity_abs_toler + hole_continuity_abs_toler)
            * c[2] * PseudoTimeStepMetal
ExceedsRel(n) ==
  LET c == PseudoCap(n)
      d == Abs(x_in[local_offset(n)] - psi[n])
  IN  c[1] * d > relative_toler * c[2] * (Abs(x_in[local_offset(n)]) + Abs(psi[n]) + 1)
AtRel(n) ==
  LET c == PseudoCap(n)
      d == Abs(x_in[local_offset(n)] - psi[n])
  IN  c[1] * d = relative_toler * c[2] * (Abs(x_in[local_offset(n)]) + Abs(psi[n]) + 1)

\* C9. Convergence classification: for a region that is not pad-connected the
\* test returns the number of nodes on this processor that strictly exceed
\* both the relaxed absolute tolerance and the relative tolerance; a node at a
\* threshold or over one threshold only is not counted; NodeData is unchanged.
C9_ConvergenceCount ==
  (~pad /\ op = "DDM1_Pseudo_Time_Step_Convergence_Test") =>
    /\ ret = Cardinality({n \in Owned : ExceedsAbs(n) /\ ExceedsRel(n)})
    /\ psi = pre_psi
    /\ psi_last = pre_psi_last

C9_Witness ==
  /\ ~pad
  /\ op = "DDM1_Pseudo_Time_Step_Convergence_Test"
  /\ ret = 1
  /\ \E n \in Owned : ExceedsAbs(n) /\ AtRel(n)

\* C10 as claimed: N*res and cap*N take the same value for every N (here:
\* the value they take for N = 1).
C10_NTimesConstant ==
  op \in {"DDM1_Function", "DDM1_Jacobian"} =>
    /\ RMul(R(total_nodes), cap_res.res) = R(1 * aux_resistance * 2)
    /\ RMul(cap_res.cap, R(total_nodes)) = Rat(1 * aux_capacitance, 2)

\* C10. Lumped-element scaling: for every network size N, (N+1)*cap is the
\* total capacitance and res/(N+1) the total resistance, so N+1 such elements
\* side by side present the same R and C whatever N is.
C10_ScalingInvariant ==
  op \in {"DDM1_Function", "DDM1_Jacobian"} =>
    /\ cap_res.cap[1] * (total_nodes + 1) = aux_capacitance * cap_res.cap[2]
    /\ cap_res.res[1] = aux_resistance * (total_nodes + 1) * cap_res.res[2]

C10_Witness ==
  /\ op = "DDM1_Function"
  /\ total_nodes = 100
  /\ cap_res.cap = <<6, 101>>

====
